---- MODULE Spec2Model ----
(***************************************************************************)
(* Session context store of ai-responder: the boundary-safe trimmer        *)
(* (AIResponderV1.trimMessagesToolsPairsSafety), the full-transcript turn  *)
(* (AIResponderV1.getContextResponse), the continuation-token turn         *)
(* (AIResponderV2.getContextResponse) and the in-memory cache provider     *)
(* (InMemoryCache) they run on.                                            *)
(*                                                                         *)
(* Arrays are 0-based in the source; At(s, i) reads index i of a TLA+      *)
(* sequence the way the source reads s[i].  A string held by the cache is  *)
(* a sequence of tokens, so that JSON.stringify and JSON.parse are real    *)
(* conversions between message lists and strings.                          *)
(***************************************************************************)
EXTENDS Integers, Sequences, FiniteSets, TLC

\* ------------------------------------------------------------------ bounds
MaxLen == 4          \* longest message list handed to the trimmer directly
MaxK == 3            \* largest retention budget tried
MaxTurns == 2        \* turns started in one behaviour of the session model
MaxTime == 1         \* clock ticks (seconds) in one behaviour
ExpireTime == 1      \* cache.expireTime the responder is configured with, seconds
MaxSignals == 1      \* termination signals delivered to one process
MaxEvents == 1       \* connectivity events the providers emit in one behaviour
MaxRegistrations == 2 \* calls of catchErrors on one responder

\* --------------------------------------------------------------- constants
DefaultLengthOfContext == 10
MsPerSecond == 1000

\* ---------------------------------------------------------------- messages
Roles == {"user", "assistant", "tool", "system"}
TrimContents == {"A", "B"}

Msg(r, c) == [role |-> r, content |-> c]

At(s, i) == s[i + 1]

Min(a, b) == IF a < b THEN a ELSE b
Max(a, b) == IF a > b THEN a ELSE b

\* Array.prototype.slice(start): a negative start counts from the end.
Slice(s, start) ==
  LET len == Len(s)
      from == IF start < 0 THEN Max(len + start, 0) ELSE Min(start, len)
  IN SubSeq(s, from + 1, len)

\* ----------------------------------------------------------------- trimmer
\* for (let i = 1; i < messages.length; i++) ... toolPairs.push(i - 1, i)
RECURSIVE ToolPairsFrom(_, _)
ToolPairsFrom(messages, i) ==
  IF i >= Len(messages) THEN <<>>
  ELSE (IF At(messages, i).role = "tool" /\ At(messages, i - 1).role = "assistant"
          THEN <<i - 1, i>> ELSE <<>>)
       \o ToolPairsFrom(messages, i + 1)

ToolPairs(messages) == ToolPairsFrom(messages, 1)

\* for (const pairStart of toolPairs) { if (...) { startIndex = pairStart; break } }
RECURSIVE ScanPairs(_, _, _)
ScanPairs(toolPairs, startIndex, j) ==
  IF j > Len(toolPairs) THEN startIndex
  ELSE LET pairStart == toolPairs[j] IN
       IF pairStart < startIndex /\ pairStart + 1 >= startIndex
         THEN pairStart
         ELSE ScanPairs(toolPairs, startIndex, j + 1)

\* Faulty variants of the trimmer: no early return, keeping the first
\* maxLength messages, cutting without regard to pairs, an off-by-one cut,
\* and a cut that also keeps the message before the pair it falls in.
TrimNoEarlyReturn(messages, maxLength) ==
  Slice(messages, ScanPairs(ToolPairs(messages), Len(messages) - maxLength, 1))

TrimKeepFirst(messages, maxLength) ==
  IF Len(messages) <= maxLength THEN messages
  ELSE SubSeq(messages, 1, maxLength)

TrimNaiveCut(messages, maxLength) ==
  IF Len(messages) <= maxLength THEN messages
  ELSE Slice(messages, Len(messages) - maxLength)

TrimOffByOne(messages, maxLength) ==
  IF Len(messages) <= maxLength THEN messages
  ELSE Slice(messages,
             ScanPairs(ToolPairs(messages), Len(messages) - maxLength + 1, 1))

TrimPairAndBefore(messages, maxLength) ==
  IF Len(messages) <= maxLength THEN messages
  ELSE LET startIndex == Len(messages) - maxLength
           moved == ScanPairs(ToolPairs(messages), startIndex, 1)
       IN Slice(messages, IF moved < startIndex /\ moved > 0 THEN moved - 1 ELSE moved)

trimMessagesToolsPairsSafety(messages, maxLength) ==
  IF Len(messages) <= maxLength THEN messages
  ELSE LET toolPairs == ToolPairs(messages)
           startIndex == Len(messages) - maxLength
       IN Slice(messages, ScanPairs(toolPairs, startIndex, 1))

\* ------------------------------------------------------- JSON conversions
\* JSON.stringify of a CoreMessage[]: [{role,content},{role,content},...]
RECURSIVE StringifyElements(_)
StringifyElements(messages) ==
  IF messages = <<>> THEN <<>>
  ELSE <<"{", messages[1].role, messages[1].content, "}">>
       \o (IF Len(messages) = 1 THEN <<>>
           ELSE <<",">> \o StringifyElements(Tail(messages)))

JSONstringify(messages) == <<"[">> \o StringifyElements(messages) \o <<"]">>

\* The text between the brackets of an array; ok = FALSE is a SyntaxError.
RECURSIVE ParseElements(_)
ParseElements(text) ==
  IF Len(text) < 4 \/ text[1] # "{" \/ text[4] # "}" \/ text[2] \notin Roles
    THEN [ok |-> FALSE, value |-> <<>>]
  ELSE LET first == Msg(text[2], text[3]) IN
       IF Len(text) = 4 THEN [ok |-> TRUE, value |-> <<first>>]
       ELSE IF text[5] # "," THEN [ok |-> FALSE, value |-> <<>>]
       ELSE LET rest == ParseElements(SubSeq(text, 6, Len(text))) IN
            [ok |-> rest.ok, value |-> IF rest.ok THEN <<first>> \o rest.value ELSE <<>>]

\* JSON texts that are not arrays: a literal, a number, a quoted string, an
\* object.
JSONOther(text) ==
  \/ text \in {<<"null">>, <<"true">>, <<"false">>, <<"0">>}
  \/ Len(text) = 3 /\ text[1] = "\"" /\ text[3] = "\""
  \/ text = <<"{", "}">>
  \/ Len(text) = 4 /\ text[1] = "{" /\ text[4] = "}"

\* JSON.parse: ok = FALSE is a SyntaxError; array tells whether the value is
\* an array, whose elements are then in value.
JSONparse(text) ==
  IF JSONOther(text) THEN [ok |-> TRUE, array |-> FALSE, value |-> <<>>]
  ELSE IF Len(text) < 2 \/ text[1] # "[" \/ text[Len(text)] # "]"
    THEN [ok |-> FALSE, array |-> FALSE, value |-> <<>>]
  ELSE IF Len(text) = 2 THEN [ok |-> TRUE, array |-> TRUE, value |-> <<>>]
  ELSE LET elements == ParseElements(SubSeq(text, 2, Len(text) - 1))
       IN [ok |-> elements.ok, array |-> elements.ok, value |-> elements.value]

\* ------------------------------------------------------------ InMemoryCache
\* The Map of InMemoryCache is a function whose domain is the keys it holds.
EmptyMap == [key \in {} |-> [value |-> <<>>, expiresAt |-> 0]]

\* Map.set(key, entry) replaces the entry of a key already present; the
\* variant leaves an entry that is present as it is.
MapSetIfAbsent(map, key, entry) ==
  [k \in DOMAIN map \cup {key} |-> IF k \in DOMAIN map THEN map[k] ELSE entry]

MapSet(map, key, entry) ==
  [k \in DOMAIN map \cup {key} |-> IF k = key THEN entry ELSE map[k]]

MapDelete(map, key) == [k \in DOMAIN map \ {key} |-> map[k]]

\* get: the entry's value when present and not expired, else delete and null.
CacheHit(map, key, dateNow) == key \in DOMAIN map /\ map[key].expiresAt > dateNow

CacheGetResult(map, key, dateNow) ==
  IF CacheHit(map, key, dateNow)
    THEN [isNull |-> FALSE, value |-> map[key].value]
    ELSE [isNull |-> TRUE, value |-> <<>>]

\* The Map after a get; the variant deletes the entry whether expired or not.
CacheGetEager(map, key, dateNow) == MapDelete(map, key)

CacheGetMap(map, key, dateNow) ==
  IF CacheHit(map, key, dateNow) THEN map ELSE MapDelete(map, key)

\* set: expiresAt = Date.now() + duration * 1000.  The variant keeps the
\* expiry of an entry that is present and replaces only its value.
CacheSetFixedWindow(map, key, value, duration, dateNow) ==
  MapSet(map, key, [value |-> value,
                    expiresAt |-> IF key \in DOMAIN map THEN map[key].expiresAt
                                  ELSE dateNow + duration * MsPerSecond])

CacheSetMap(map, key, value, duration, dateNow) ==
  MapSet(map, key, [value |-> value, expiresAt |-> dateNow + duration * MsPerSecond])

\* A JavaScript value is falsy when it is null, undefined or the empty string.
Falsy(result) == result.isNull \/ result.value = <<>>

VARIABLES trimIn, trimMax, trimOut, trimAgain, trimPc,
          cache, now, lengthOfContext, errorHandler,
          pc, turn, messages, messagesKey, request, response, outcome,
          gets, sets, notified, loaded, overlap, memoryUsers, started,
          invoked, before, fetched,
          probe, written,
          providerKind, providerOf, handlers, listening, heard,
          signals, runs, queue, calls, exited, emitted

trimVars == <<trimIn, trimMax, trimOut, trimAgain, trimPc>>

\* What a direct user of the cache last read, and what was last written.
probeVars == <<probe, written>>

\* The process: the responders constructed in it and their providers, the
\* handlers registered with catchErrors, the callbacks each provider holds,
\* what each handler has been told, the signals received, the cleanup
\* listeners under way, the microtask queue, the flushall and quit calls each
\* provider received, whether process.exit was called, and the last
\* connectivity event.
processVars == <<providerKind, providerOf, handlers, listening, heard,
                 signals, runs, queue, calls, exited, emitted>>

sessionVars == <<cache, now, lengthOfContext, errorHandler,
                 pc, turn, messages, messagesKey, request, response, outcome,
                 gets, sets, notified, loaded, overlap, memoryUsers, started,
                 invoked, before, fetched>>

vars == <<trimIn, trimMax, trimOut, trimAgain, trimPc,
          cache, now, lengthOfContext, errorHandler,
          pc, turn, messages, messagesKey, request, response, outcome,
          gets, sets, notified, loaded, overlap, memoryUsers, started,
          invoked, before, fetched,
          probe, written,
          providerKind, providerOf, handlers, listening, heard,
          signals, runs, queue, calls, exited, emitted>>

\* ------------------------------------------------------------- the session
Procs == {"c1", "c2"}        \* concurrent callers of one responder
Users == {"u1", "u2"}

\* The two responder classes, and the caller and user whose turns are
\* followed one at a time.
Kinds == {"V1", "V2"}
Caller == "c1"
CallerUser == "u1"

\* The prompt of the n-th turn.  The code never compares prompts, so giving
\* every turn a text of its own loses no behaviour and keeps each turn's
\* user message recognisable in a transcript.
PromptTexts == <<"A", "B", "C", "D", "E", "F">>
TurnPrompt(n) == PromptTexts[n]

DefaultExpireTime == 3600

\* const sessionKey = `session:${userId}`; the variant uses one key for all.
SessionKeyShared(userId) == <<"session:", "">>

SessionKey(userId) == <<"session:", userId>>

\* this.lengthOfContext = config.lengthOfContext || 10
ConfiguredLength(configured) ==
  IF configured = 0 THEN DefaultLengthOfContext ELSE configured

\* this.cache?.expireTime || 3600   and   this.cache?.expireTime ?? 3600
V1ExpireTime == IF ExpireTime = 0 THEN DefaultExpireTime ELSE ExpireTime
V2ExpireTime == ExpireTime

\* What generateText can report for the chat model: a plain answer, a tool
\* round followed by an answer, and a tool round cut short by maxSteps.
TextResponses ==
  { [messages |-> <<Msg("assistant", "hi")>>, text |-> "hi", responseId |-> <<>>,
     object |-> ""],
    [messages |-> <<Msg("assistant", "call"), Msg("tool", "result"),
                    Msg("assistant", "hi")>>, text |-> "hi", responseId |-> <<>>,
     object |-> ""],
    [messages |-> <<Msg("assistant", "call"), Msg("tool", "result")>>,
     text |-> "", responseId |-> <<>>, object |-> ""] }

\* The id the responses API issues for the n-th turn, as a string.
ResponseId(n) == <<"resp_">> \o [i \in 1..n |-> "x"]

\* What generateText can report for the responses model in turn n: an
\* answer with providerMetadata.openai.responseId, or one without it.
TokenResponses(n) ==
  { [messages |-> <<Msg("assistant", "hi")>>, text |-> "hi", responseId |-> id,
     object |-> ""]
      : id \in {ResponseId(n), <<>>} }

NoTurn == [kind |-> "none", method |-> "none", userId |-> "", prompt |-> "",
           memory |-> FALSE, omitted |-> FALSE, ordinal |-> 0]
NoRequest == [messages |-> <<>>, prompt |-> "", previousResponseId |-> <<>>]
NoResponse == [messages |-> <<>>, text |-> "", responseId |-> <<>>, object |-> ""]

\* The result of a caller's provider.get: nothing yet, a rejection, null, or a string.
NoFetch == [status |-> "none", value |-> <<>>]

\* The part of the Map that holds one key.
Snapshot(map, key) == [k \in DOMAIN map \cap {key} |-> map[k]]

\* What is known of the sets made on one key: how many since the Map was
\* last cleared (counted up to two), the latest one's value, time and
\* duration, the time of the one before it, and whether the Map has been
\* cleared since.
NoWrite == [count |-> 0, value |-> <<>>, at |-> 0, duration |-> 0, prevAt |-> 0,
            flushed |-> FALSE]

\* A get made directly on the cache: its key, what it returned, when, and
\* what was known of the key's sets at that moment.
NoProbe == [key |-> <<>>, isNull |-> TRUE, value |-> <<>>, at |-> 0, last |-> NoWrite]

\* if (options.memory) { ... } else { ... }; the variant ignores the option.
V1AlwaysMemory(options) == TRUE

V1UsesMemory(options) == options.memory

\* messages.push({ role: "user", content: prompt })
PushPrompt(list, prompt) == Append(list, Msg("user", prompt))

\* messages.push(...response.response.messages); the variant keeps only the
\* final text as one assistant message.
MergeTextOnly(list, resp) == Append(list, Msg("assistant", resp.text))

MergeResponse(list, resp) == list \o resp.messages

\* The responders a process constructs, in construction order, and the
\* provider objects they can be given.
ResponderOrder == <<"r1", "r2">>
Responders == {"r1", "r2"}
Providers == {"p1", "p2"}
Stages == {"none", "flushing", "quitting", "done", "failed"}

\* provider.on("error" | "connect" | "reconnecting" | "end", ...)
EventKinds == {"error", "connect", "reconnecting", "end"}

NoEvent == [count |-> 0, provider |-> "", kind |-> "none"]
NothingHeard == [clean |-> 0, kind |-> "none", times |-> 0]

\* A process with one responder on its default in-memory provider, no
\* handler registered and no signal received.
ProcessIdle ==
  /\ providerKind = "memory"
  /\ providerOf = [r \in {"r1"} |-> "p1"]
  /\ handlers = {}
  /\ listening = [prov \in Providers |-> [r \in Responders |-> 0]]
  /\ heard = [r \in Responders |-> NothingHeard]
  /\ signals = 0
  /\ runs = [r \in Responders |-> <<>>]
  /\ queue = <<>>
  /\ calls = [prov \in Providers |-> <<>>]
  /\ exited = FALSE
  /\ emitted = NoEvent

InitSession ==
  /\ ProcessIdle
  /\ cache = EmptyMap
  /\ now = 0
  /\ lengthOfContext \in {ConfiguredLength(c) : c \in 0..MaxK}
  /\ errorHandler = FALSE
  /\ pc = [p \in Procs |-> "idle"]
  /\ turn = [p \in Procs |-> NoTurn]
  /\ messages = [p \in Procs |-> <<>>]
  /\ messagesKey = [p \in Procs |-> <<>>]
  /\ request = [p \in Procs |-> NoRequest]
  /\ response = [p \in Procs |-> NoResponse]
  /\ outcome = [p \in Procs |-> "none"]
  /\ gets = [p \in Procs |-> 0]
  /\ sets = [p \in Procs |-> 0]
  /\ notified = [p \in Procs |-> 0]
  /\ loaded = [p \in Procs |-> <<>>]
  /\ overlap = [p \in Procs |-> FALSE]
  /\ memoryUsers = {}
  /\ started = 0
  /\ invoked = [p \in Procs |-> 0]
  /\ before = [p \in Procs |-> EmptyMap]
  /\ fetched = [p \in Procs |-> NoFetch]
  /\ probe = NoProbe
  /\ written = EmptyMap
  /\ trimIn = <<>>
  /\ trimMax = 1
  /\ trimOut = <<>>
  /\ trimAgain = <<>>
  /\ trimPc = "unused"

\* The session's variables while the trimmer is exercised on its own.
SessionIdle ==
  /\ ProcessIdle
  /\ cache = EmptyMap
  /\ now = 0
  /\ lengthOfContext = DefaultLengthOfContext
  /\ errorHandler = FALSE
  /\ pc = [p \in Procs |-> "idle"]
  /\ turn = [p \in Procs |-> NoTurn]
  /\ messages = [p \in Procs |-> <<>>]
  /\ messagesKey = [p \in Procs |-> <<>>]
  /\ request = [p \in Procs |-> NoRequest]
  /\ response = [p \in Procs |-> NoResponse]
  /\ outcome = [p \in Procs |-> "none"]
  /\ gets = [p \in Procs |-> 0]
  /\ sets = [p \in Procs |-> 0]
  /\ notified = [p \in Procs |-> 0]
  /\ loaded = [p \in Procs |-> <<>>]
  /\ overlap = [p \in Procs |-> FALSE]
  /\ memoryUsers = {}
  /\ started = 0
  /\ invoked = [p \in Procs |-> 0]
  /\ before = [p \in Procs |-> EmptyMap]
  /\ fetched = [p \in Procs |-> NoFetch]
  /\ probe = NoProbe
  /\ written = EmptyMap

\* A caller enters getContextResponse(userId, prompt, {memory}).  The V1
\* method branches on options.memory; the V2 override has no such parameter.
StartCall(p, kind, userId, prompt, memory) ==
  /\ pc[p] = "idle"
  /\ started < MaxTurns
  /\ started' = started + 1
  /\ turn' = [turn EXCEPT ![p] = [kind |-> kind, method |-> "text", userId |-> userId,
                                  prompt |-> prompt, memory |-> memory,
                                  omitted |-> FALSE, ordinal |-> started + 1]]
  /\ IF kind = "V1" /\ ~V1UsesMemory([memory |-> memory])
       THEN /\ pc' = [pc EXCEPT ![p] = "invoke"]
            /\ request' = [request EXCEPT ![p] = [NoRequest EXCEPT !.prompt = prompt]]
            /\ invoked' = [invoked EXCEPT ![p] = @ + 1]
       ELSE /\ pc' = [pc EXCEPT ![p] = "load"]
            /\ UNCHANGED <<request, invoked>>
  /\ UNCHANGED fetched
  /\ overlap' = [q \in Procs |->
                   IF q = p THEN \E r \in Procs \ {p} :
                                    pc[r] # "idle" /\ turn[r].userId = userId
                   ELSE overlap[q] \/ (pc[q] # "idle" /\ turn[q].userId = userId)]
  /\ memoryUsers' = IF memory THEN memoryUsers \cup {userId} ELSE memoryUsers
  /\ UNCHANGED <<cache, now, lengthOfContext, errorHandler, messages, messagesKey,
                 response, outcome, gets, sets, notified, loaded>>
  /\ UNCHANGED <<trimVars, probeVars, processVars>>

\* The call as made by one of several concurrent callers, and as made by the
\* caller whose turns are followed one at a time: for that caller the
\* session entry the turn found is kept for comparison.
StartTurn(p, kind, userId, prompt, memory) ==
  /\ StartCall(p, kind, userId, prompt, memory)
  /\ UNCHANGED before

StartFollowed(p, kind, userId, prompt, memory) ==
  /\ StartCall(p, kind, userId, prompt, memory)
  /\ before' = [before EXCEPT ![p] = Snapshot(cache, SessionKey(userId))]

\* What V1 parses at lines 79-81 and 157-159: the entry, or "[]" for none.
V1Parsed(p) ==
  LET got == CacheGetResult(cache, SessionKey(turn[p].userId), now)
  IN JSONparse(IF Falsy(got) THEN <<"[", "]">> ELSE got.value)

\* messages.push of lines 86 and 164 needs an array; on any other parsed
\* value it is a TypeError.
Pushable(parsed) == parsed.ok => parsed.array

\* V1, lines 75-86 and 154-164: the entry parsed to a value that is not an
\* array, which the try block accepts; messages.push, outside the try
\* block, throws and the call rejects before the model is called.
V1PushThrows(p) ==
  /\ pc[p] = "load"
  /\ turn[p].kind = "V1"
  /\ ~Pushable(V1Parsed(p))
  /\ LET sessionKey == SessionKey(turn[p].userId)
         got == CacheGetResult(cache, sessionKey, now)
     IN /\ cache' = CacheGetMap(cache, sessionKey, now)
        /\ fetched' = [fetched EXCEPT ![p] =
                         [status |-> IF got.isNull THEN "null" ELSE "value",
                          value |-> got.value]]
  /\ gets' = [gets EXCEPT ![p] = @ + 1]
  /\ outcome' = [outcome EXCEPT ![p] = "typeerror"]
  /\ pc' = [pc EXCEPT ![p] = "done"]
  /\ UNCHANGED <<now, lengthOfContext, errorHandler, turn, messages, messagesKey, request,
                 response, sets, notified, loaded, overlap, memoryUsers, started,
                 invoked, before>>
  /\ UNCHANGED <<trimVars, probeVars, processVars>>

\* V1, lines 75-86: read the session entry, parse it (anything unparsable is
\* an empty history), append the user message and call generateText.
V1Load(p) ==
  /\ pc[p] = "load"
  /\ turn[p].kind = "V1"
  /\ Pushable(V1Parsed(p))
  /\ LET sessionKey == SessionKey(turn[p].userId)
         got == CacheGetResult(cache, sessionKey, now)
         text == IF Falsy(got) THEN <<"[", "]">> ELSE got.value
         parsed == JSONparse(text)
         prior == IF parsed.ok THEN parsed.value ELSE <<>>
         list == PushPrompt(prior, turn[p].prompt)
     IN /\ cache' = CacheGetMap(cache, sessionKey, now)
        /\ loaded' = [loaded EXCEPT ![p] = prior]
        /\ messages' = [messages EXCEPT ![p] = list]
        /\ request' = [request EXCEPT ![p] = [NoRequest EXCEPT !.messages = list]]
        /\ fetched' = [fetched EXCEPT ![p] =
                         [status |-> IF got.isNull THEN "null" ELSE "value",
                          value |-> got.value]]
  /\ invoked' = [invoked EXCEPT ![p] = @ + 1]
  /\ UNCHANGED before
  /\ gets' = [gets EXCEPT ![p] = @ + 1]
  /\ pc' = [pc EXCEPT ![p] = "invoke"]
  /\ UNCHANGED <<now, lengthOfContext, errorHandler, turn, messagesKey, response,
                 outcome, sets, notified, overlap, memoryUsers, started>>
  /\ UNCHANGED <<trimVars, probeVars, processVars>>

\* V1, lines 89-113: generateText resolved; merge its messages, trim, and
\* call provider.set.  The variant hands the response to the caller at once.
V1RespondEarly(p, resp) ==
  /\ pc[p] = "invoke"
  /\ turn[p].kind = "V1"
  /\ turn[p].method = "text"
  /\ V1UsesMemory(turn[p])
  /\ response' = [response EXCEPT ![p] = resp]
  /\ outcome' = [outcome EXCEPT ![p] = "response"]
  /\ messages' = [messages EXCEPT ![p] =
                    trimMessagesToolsPairsSafety(MergeResponse(messages[p], resp),
                                                 lengthOfContext)]
  /\ pc' = [pc EXCEPT ![p] = "save"]
  /\ UNCHANGED <<cache, now, lengthOfContext, errorHandler, turn, messagesKey, request,
                 gets, sets, notified, loaded, overlap, memoryUsers, started>>
  /\ UNCHANGED <<invoked, before, fetched>>
  /\ UNCHANGED <<trimVars, probeVars, processVars>>

V1Respond(p, resp) ==
  /\ pc[p] = "invoke"
  /\ turn[p].kind = "V1"
  /\ turn[p].method = "text"
  /\ V1UsesMemory(turn[p])
  /\ response' = [response EXCEPT ![p] = resp]
  /\ messages' = [messages EXCEPT ![p] =
                    trimMessagesToolsPairsSafety(MergeResponse(messages[p], resp),
                                                 lengthOfContext)]
  /\ pc' = [pc EXCEPT ![p] = "save"]
  /\ UNCHANGED <<cache, now, lengthOfContext, errorHandler, turn, messagesKey, request,
                 outcome, gets, sets, notified, loaded, overlap, memoryUsers, started>>
  /\ UNCHANGED <<invoked, before, fetched>>
  /\ UNCHANGED <<trimVars, probeVars, processVars>>

\* V1, lines 108-115 and 189-196: the set lands and the response is returned.
\* One variant always writes the default expiry, the other appends to the
\* transcript it finds stored.
V1SaveDefaultTtl(p) ==
  /\ pc[p] = "save"
  /\ turn[p].kind = "V1"
  /\ cache' = CacheSetMap(cache, SessionKey(turn[p].userId),
                          JSONstringify(messages[p]), DefaultExpireTime, now)
  /\ sets' = [sets EXCEPT ![p] = @ + 1]
  /\ outcome' = [outcome EXCEPT ![p] = "response"]
  /\ pc' = [pc EXCEPT ![p] = "done"]
  /\ UNCHANGED <<now, lengthOfContext, errorHandler, turn, messages, messagesKey, request,
                 response, gets, notified, loaded, overlap, memoryUsers, started>>
  /\ UNCHANGED <<invoked, before, fetched>>
  /\ UNCHANGED <<trimVars, probeVars, processVars>>

V1SaveMerging(p) ==
  /\ pc[p] = "save"
  /\ turn[p].kind = "V1"
  /\ LET sessionKey == SessionKey(turn[p].userId)
         held == CacheGetResult(cache, sessionKey, now)
         parsed == JSONparse(IF Falsy(held) THEN <<"[", "]">> ELSE held.value)
         others == IF parsed.ok THEN parsed.value ELSE <<>>
     IN cache' = CacheSetMap(cache, sessionKey, JSONstringify(others \o messages[p]),
                             V1ExpireTime, now)
  /\ sets' = [sets EXCEPT ![p] = @ + 1]
  /\ outcome' = [outcome EXCEPT ![p] = "response"]
  /\ pc' = [pc EXCEPT ![p] = "done"]
  /\ UNCHANGED <<now, lengthOfContext, errorHandler, turn, messages, messagesKey, request,
                 response, gets, notified, loaded, overlap, memoryUsers, started>>
  /\ UNCHANGED <<invoked, before, fetched>>
  /\ UNCHANGED <<trimVars, probeVars, processVars>>

V1Save(p) ==
  /\ pc[p] = "save"
  /\ turn[p].kind = "V1"
  /\ cache' = CacheSetMap(cache, SessionKey(turn[p].userId),
                          JSONstringify(messages[p]), V1ExpireTime, now)
  /\ sets' = [sets EXCEPT ![p] = @ + 1]
  /\ outcome' = [outcome EXCEPT ![p] = "response"]
  /\ pc' = [pc EXCEPT ![p] = "done"]
  /\ UNCHANGED <<now, lengthOfContext, errorHandler, turn, messages, messagesKey, request,
                 response, gets, notified, loaded, overlap, memoryUsers, started>>
  /\ UNCHANGED <<invoked, before, fetched>>
  /\ UNCHANGED <<trimVars, probeVars, processVars>>

\* V1, lines 121-132: the memory=false branch returns the response directly.
V1RespondOnce(p, resp) ==
  /\ pc[p] = "invoke"
  /\ turn[p].kind = "V1"
  /\ turn[p].method = "text"
  /\ ~V1UsesMemory(turn[p])
  /\ response' = [response EXCEPT ![p] = resp]
  /\ outcome' = [outcome EXCEPT ![p] = "response"]
  /\ pc' = [pc EXCEPT ![p] = "done"]
  /\ UNCHANGED <<cache, now, lengthOfContext, errorHandler, turn, messages, messagesKey,
                 request, gets, sets, notified, loaded, overlap, memoryUsers, started>>
  /\ UNCHANGED <<invoked, before, fetched>>
  /\ UNCHANGED <<trimVars, probeVars, processVars>>

\* V2, lines 29-59: read the session entry as a response id and call
\* generateText with the prompt and, if the id is truthy, previousResponseId.
\* The variant never passes the id on.
V2LoadForgets(p) ==
  /\ pc[p] = "load"
  /\ turn[p].kind = "V2"
  /\ LET sessionKey == SessionKey(turn[p].userId)
         cachedValue == CacheGetResult(cache, sessionKey, now)
     IN /\ cache' = CacheGetMap(cache, sessionKey, now)
        /\ messagesKey' = [messagesKey EXCEPT ![p] = <<>>]
        /\ request' = [request EXCEPT ![p] =
                         [messages |-> <<>>, prompt |-> turn[p].prompt,
                          previousResponseId |-> <<>>]]
        /\ fetched' = [fetched EXCEPT ![p] =
                         [status |-> IF cachedValue.isNull THEN "null" ELSE "value",
                          value |-> cachedValue.value]]
  /\ invoked' = [invoked EXCEPT ![p] = @ + 1]
  /\ UNCHANGED before
  /\ gets' = [gets EXCEPT ![p] = @ + 1]
  /\ pc' = [pc EXCEPT ![p] = "invoke"]
  /\ UNCHANGED <<now, lengthOfContext, errorHandler, turn, messages, response, outcome,
                 sets, notified, loaded, overlap, memoryUsers, started>>
  /\ UNCHANGED <<trimVars, probeVars, processVars>>

V2Load(p) ==
  /\ pc[p] = "load"
  /\ turn[p].kind = "V2"
  /\ LET sessionKey == SessionKey(turn[p].userId)
         cachedValue == CacheGetResult(cache, sessionKey, now)
         key == IF Falsy(cachedValue) THEN <<>> ELSE cachedValue.value
     IN /\ cache' = CacheGetMap(cache, sessionKey, now)
        /\ messagesKey' = [messagesKey EXCEPT ![p] = key]
        /\ request' = [request EXCEPT ![p] =
                         [messages |-> <<>>, prompt |-> turn[p].prompt,
                          previousResponseId |-> key]]
        /\ fetched' = [fetched EXCEPT ![p] =
                         [status |-> IF cachedValue.isNull THEN "null" ELSE "value",
                          value |-> cachedValue.value]]
  /\ invoked' = [invoked EXCEPT ![p] = @ + 1]
  /\ UNCHANGED before
  /\ gets' = [gets EXCEPT ![p] = @ + 1]
  /\ pc' = [pc EXCEPT ![p] = "invoke"]
  /\ UNCHANGED <<now, lengthOfContext, errorHandler, turn, messages, response, outcome,
                 sets, notified, loaded, overlap, memoryUsers, started>>
  /\ UNCHANGED <<trimVars, probeVars, processVars>>

\* V2, lines 59-72: generateText resolved; keep its responseId and, if it is
\* truthy, call provider.set, else return.
V2Respond(p, resp) ==
  /\ pc[p] = "invoke"
  /\ turn[p].kind = "V2"
  /\ response' = [response EXCEPT ![p] = resp]
  /\ messagesKey' = [messagesKey EXCEPT ![p] = resp.responseId]
  /\ IF resp.responseId # <<>>
       THEN /\ pc' = [pc EXCEPT ![p] = "save"]
            /\ UNCHANGED outcome
       ELSE /\ pc' = [pc EXCEPT ![p] = "done"]
            /\ outcome' = [outcome EXCEPT ![p] = "response"]
  /\ UNCHANGED <<cache, now, lengthOfContext, errorHandler, turn, messages, request,
                 gets, sets, notified, loaded, overlap, memoryUsers, started>>
  /\ UNCHANGED <<invoked, before, fetched>>
  /\ UNCHANGED <<trimVars, probeVars, processVars>>

\* V2, lines 64-72 and 130-138: the set lands and the response is returned.
\* The variant appends the new id to the one already stored.
V2SaveAppends(p) ==
  /\ pc[p] = "save"
  /\ turn[p].kind = "V2"
  /\ LET sessionKey == SessionKey(turn[p].userId)
         held == CacheGetResult(cache, sessionKey, now)
     IN cache' = CacheSetMap(cache, sessionKey, held.value \o messagesKey[p],
                             V2ExpireTime, now)
  /\ sets' = [sets EXCEPT ![p] = @ + 1]
  /\ outcome' = [outcome EXCEPT ![p] = "response"]
  /\ pc' = [pc EXCEPT ![p] = "done"]
  /\ UNCHANGED <<now, lengthOfContext, errorHandler, turn, messages, messagesKey, request,
                 response, gets, notified, loaded, overlap, memoryUsers, started>>
  /\ UNCHANGED <<invoked, before, fetched>>
  /\ UNCHANGED <<trimVars, probeVars, processVars>>

V2Save(p) ==
  /\ pc[p] = "save"
  /\ turn[p].kind = "V2"
  /\ cache' = CacheSetMap(cache, SessionKey(turn[p].userId),
                          messagesKey[p], V2ExpireTime, now)
  /\ sets' = [sets EXCEPT ![p] = @ + 1]
  /\ outcome' = [outcome EXCEPT ![p] = "response"]
  /\ pc' = [pc EXCEPT ![p] = "done"]
  /\ UNCHANGED <<now, lengthOfContext, errorHandler, turn, messages, messagesKey, request,
                 response, gets, notified, loaded, overlap, memoryUsers, started>>
  /\ UNCHANGED <<invoked, before, fetched>>
  /\ UNCHANGED <<trimVars, probeVars, processVars>>

\* generateText or generateObject rejects: the catch block notifies the
\* handler and rethrows; nothing is written.  One variant leaves the handler
\* out, the other writes the history it had built before rethrowing.
InvokeThrowsQuietly(p) ==
  /\ pc[p] = "invoke"
  /\ outcome' = [outcome EXCEPT ![p] = "error"]
  /\ pc' = [pc EXCEPT ![p] = "done"]
  /\ UNCHANGED <<cache, now, lengthOfContext, errorHandler, turn, messages, messagesKey,
                 request, response, gets, sets, notified, loaded, overlap, memoryUsers,
                 started>>
  /\ UNCHANGED <<invoked, before, fetched>>
  /\ UNCHANGED <<trimVars, probeVars, processVars>>

InvokeThrowsStoring(p) ==
  /\ pc[p] = "invoke"
  /\ notified' = [notified EXCEPT ![p] = IF errorHandler THEN @ + 1 ELSE @]
  /\ outcome' = [outcome EXCEPT ![p] = "error"]
  /\ pc' = [pc EXCEPT ![p] = "done"]
  /\ cache' = CacheSetMap(cache, SessionKey(turn[p].userId),
                          JSONstringify(messages[p]), V1ExpireTime, now)
  /\ UNCHANGED <<now, lengthOfContext, errorHandler, turn, messages, messagesKey,
                 request, response, gets, sets, loaded, overlap, memoryUsers, started>>
  /\ UNCHANGED <<invoked, before, fetched>>
  /\ UNCHANGED <<trimVars, probeVars, processVars>>

InvokeThrows(p) ==
  /\ pc[p] = "invoke"
  /\ notified' = [notified EXCEPT ![p] = IF errorHandler THEN @ + 1 ELSE @]
  /\ outcome' = [outcome EXCEPT ![p] = "error"]
  /\ pc' = [pc EXCEPT ![p] = "done"]
  /\ UNCHANGED <<cache, now, lengthOfContext, errorHandler, turn, messages, messagesKey,
                 request, response, gets, sets, loaded, overlap, memoryUsers, started>>
  /\ UNCHANGED <<invoked, before, fetched>>
  /\ UNCHANGED <<trimVars, probeVars, processVars>>

\* The caller has its result; the call's locals are gone.
FinishTurn(p) ==
  /\ pc[p] = "done"
  /\ pc' = [pc EXCEPT ![p] = "idle"]
  /\ turn' = [turn EXCEPT ![p] = NoTurn]
  /\ messages' = [messages EXCEPT ![p] = <<>>]
  /\ messagesKey' = [messagesKey EXCEPT ![p] = <<>>]
  /\ request' = [request EXCEPT ![p] = NoRequest]
  /\ response' = [response EXCEPT ![p] = NoResponse]
  /\ outcome' = [outcome EXCEPT ![p] = "none"]
  /\ gets' = [gets EXCEPT ![p] = 0]
  /\ sets' = [sets EXCEPT ![p] = 0]
  /\ notified' = [notified EXCEPT ![p] = 0]
  /\ loaded' = [loaded EXCEPT ![p] = <<>>]
  /\ overlap' = [overlap EXCEPT ![p] = FALSE]
  /\ invoked' = [invoked EXCEPT ![p] = 0]
  /\ before' = [before EXCEPT ![p] = EmptyMap]
  /\ fetched' = [fetched EXCEPT ![p] = NoFetch]
  /\ UNCHANGED <<cache, now, lengthOfContext, errorHandler, memoryUsers, started>>
  /\ UNCHANGED <<trimVars, probeVars, processVars>>

\* catchErrors(handler): registers the handler; provider.on of the in-memory
\* cache does nothing.
CatchErrors ==
  /\ ~errorHandler
  /\ errorHandler' = TRUE
  /\ UNCHANGED <<cache, now, lengthOfContext, pc, turn, messages, messagesKey, request,
                 response, outcome, gets, sets, notified, loaded, overlap, memoryUsers,
                 started>>
  /\ UNCHANGED <<invoked, before, fetched>>
  /\ UNCHANGED <<trimVars, probeVars, processVars>>

\* Date.now() advances by a second.
Tick ==
  /\ now < MaxTime * MsPerSecond
  /\ now' = now + MsPerSecond
  /\ UNCHANGED <<cache, lengthOfContext, errorHandler, pc, turn, messages, messagesKey,
                 request, response, outcome, gets, sets, notified, loaded, overlap,
                 memoryUsers, started>>
  /\ UNCHANGED <<invoked, before, fetched>>
  /\ UNCHANGED <<trimVars, probeVars, processVars>>

\* What every entry into a turn records: the turn itself, which turns of
\* the same user it overlaps, and the user's entry as the turn found it.
EnterTurn(p, entered) ==
  /\ pc[p] = "idle"
  /\ started < MaxTurns
  /\ started' = started + 1
  /\ turn' = [turn EXCEPT ![p] = [entered EXCEPT !.ordinal = started + 1]]
  /\ overlap' = [q \in Procs |->
                   IF q = p THEN \E r \in Procs \ {p} :
                                    pc[r] # "idle" /\ turn[r].userId = entered.userId
                   ELSE overlap[q] \/ (pc[q] # "idle" /\ turn[q].userId = entered.userId)]
  /\ memoryUsers' = memoryUsers \cup {entered.userId}
  /\ before' = [before EXCEPT ![p] = Snapshot(cache, SessionKey(entered.userId))]

\* getContextResponse(userId, prompt) with the options argument left out.
\* V1, line 74: options.memory on undefined is a TypeError, raised before
\* the first try block, so the call rejects and the handler hears nothing.
\* V2, lines 28-29: the override has no options parameter and loads.
StartOmitted(p, kind, userId, prompt) ==
  /\ EnterTurn(p, [kind |-> kind, method |-> "text", userId |-> userId, prompt |-> prompt,
                   memory |-> TRUE, omitted |-> TRUE, ordinal |-> 0])
  /\ IF kind = "V1"
       THEN /\ pc' = [pc EXCEPT ![p] = "done"]
            /\ outcome' = [outcome EXCEPT ![p] = "typeerror"]
       ELSE /\ pc' = [pc EXCEPT ![p] = "load"]
            /\ UNCHANGED outcome
  /\ UNCHANGED <<cache, now, lengthOfContext, errorHandler, messages, messagesKey, request,
                 response, gets, sets, notified, loaded, invoked, fetched>>
  /\ UNCHANGED <<trimVars, probeVars, processVars>>

\* getStructuredObject(userId, prompt, options): V1 line 153, V2 line 92.
\* Neither reads a memory option; both go on to load the session entry.
StartObject(p, kind, userId, prompt) ==
  /\ EnterTurn(p, [kind |-> kind, method |-> "object", userId |-> userId, prompt |-> prompt,
                   memory |-> TRUE, omitted |-> FALSE, ordinal |-> 0])
  /\ pc' = [pc EXCEPT ![p] = "load"]
  /\ UNCHANGED <<cache, now, lengthOfContext, errorHandler, messages, messagesKey, request,
                 response, outcome, gets, sets, notified, loaded, invoked, fetched>>
  /\ UNCHANGED <<trimVars, probeVars, processVars>>

\* V1, lines 78-86 and 156-164: provider.get rejects; the catch block makes
\* the history empty, the user message is appended and the model is called.
\* In the variant the rejection is not caught and ends the turn.
V1LoadEscapes(p) ==
  /\ pc[p] = "load"
  /\ turn[p].kind = "V1"
  /\ fetched' = [fetched EXCEPT ![p] = [status |-> "threw", value |-> <<>>]]
  /\ gets' = [gets EXCEPT ![p] = @ + 1]
  /\ outcome' = [outcome EXCEPT ![p] = "cacheerror"]
  /\ pc' = [pc EXCEPT ![p] = "done"]
  /\ UNCHANGED <<cache, now, lengthOfContext, errorHandler, turn, messages, messagesKey,
                 request, response, sets, notified, loaded, overlap, memoryUsers, started,
                 invoked, before>>
  /\ UNCHANGED <<trimVars, probeVars, processVars>>

V1LoadFails(p) ==
  /\ pc[p] = "load"
  /\ turn[p].kind = "V1"
  /\ LET list == PushPrompt(<<>>, turn[p].prompt)
     IN /\ messages' = [messages EXCEPT ![p] = list]
        /\ request' = [request EXCEPT ![p] = [NoRequest EXCEPT !.messages = list]]
  /\ loaded' = [loaded EXCEPT ![p] = <<>>]
  /\ fetched' = [fetched EXCEPT ![p] = [status |-> "threw", value |-> <<>>]]
  /\ gets' = [gets EXCEPT ![p] = @ + 1]
  /\ invoked' = [invoked EXCEPT ![p] = @ + 1]
  /\ pc' = [pc EXCEPT ![p] = "invoke"]
  /\ UNCHANGED <<cache, now, lengthOfContext, errorHandler, turn, messagesKey, response,
                 outcome, sets, notified, overlap, memoryUsers, started, before>>
  /\ UNCHANGED <<trimVars, probeVars, processVars>>

\* V2, lines 32-59 and 95-125: provider.get rejects; the catch block logs,
\* leaves messagesKey undefined, and the model is called without a token.
V2LoadFails(p) ==
  /\ pc[p] = "load"
  /\ turn[p].kind = "V2"
  /\ messagesKey' = [messagesKey EXCEPT ![p] = <<>>]
  /\ request' = [request EXCEPT ![p] =
                   [messages |-> <<>>, prompt |-> turn[p].prompt,
                    previousResponseId |-> <<>>]]
  /\ fetched' = [fetched EXCEPT ![p] = [status |-> "threw", value |-> <<>>]]
  /\ gets' = [gets EXCEPT ![p] = @ + 1]
  /\ invoked' = [invoked EXCEPT ![p] = @ + 1]
  /\ pc' = [pc EXCEPT ![p] = "invoke"]
  /\ UNCHANGED <<cache, now, lengthOfContext, errorHandler, turn, messages, response,
                 outcome, sets, notified, loaded, overlap, memoryUsers, started, before>>
  /\ UNCHANGED <<trimVars, probeVars, processVars>>

\* The objects generateObject can return, and JSON.stringify of each.
StructuredObjects == {"Bob"}

ObjectText(object) ==
  CASE object = "Bob" -> "{\"name\":\"Bob\"}"
    [] OTHER -> "{}"

ObjectResponses(n) ==
  { [messages |-> <<>>, text |-> "", responseId |-> id, object |-> object]
      : id \in {ResponseId(n), <<>>}, object \in StructuredObjects }

\* messages.push({ role: "assistant", content: JSON.stringify(response.object) });
\* the variant pushes the object without serializing it.
PushObjectRaw(list, resp) == Append(list, Msg("assistant", resp.object))

PushObject(list, resp) == Append(list, Msg("assistant", ObjectText(resp.object)))

\* V1 getStructuredObject, lines 167-194: generateObject resolved; append the
\* object as an assistant message, trim, and call provider.set.
V1RespondObject(p, resp) ==
  /\ pc[p] = "invoke"
  /\ turn[p].kind = "V1"
  /\ turn[p].method = "object"
  /\ response' = [response EXCEPT ![p] = resp]
  /\ messages' = [messages EXCEPT ![p] =
                    trimMessagesToolsPairsSafety(PushObject(messages[p], resp),
                                                 lengthOfContext)]
  /\ pc' = [pc EXCEPT ![p] = "save"]
  /\ UNCHANGED <<cache, now, lengthOfContext, errorHandler, turn, messagesKey, request,
                 outcome, gets, sets, notified, loaded, overlap, memoryUsers, started>>
  /\ UNCHANGED <<invoked, before, fetched>>
  /\ UNCHANGED <<trimVars, probeVars, processVars>>

\* provider.set rejects inside the try block (V1 lines 108-119 and 189-200,
\* V2 lines 64-76 and 130-142): the catch block notifies the handler and
\* rethrows, so the caller gets the cache's error, not the response.
SaveFails(p) ==
  /\ pc[p] = "save"
  /\ sets' = [sets EXCEPT ![p] = @ + 1]
  /\ notified' = [notified EXCEPT ![p] = IF errorHandler THEN @ + 1 ELSE @]
  /\ outcome' = [outcome EXCEPT ![p] = "cacheerror"]
  /\ pc' = [pc EXCEPT ![p] = "done"]
  /\ UNCHANGED <<cache, now, lengthOfContext, errorHandler, turn, messages, messagesKey,
                 request, response, gets, loaded, overlap, memoryUsers, started>>
  /\ UNCHANGED <<invoked, before, fetched>>
  /\ UNCHANGED <<trimVars, probeVars, processVars>>

StartV1 == \E p \in Procs, userId \in Users, memory \in BOOLEAN :
             StartTurn(p, "V1", userId, TurnPrompt(started + 1), memory)
LoadV1 == \E p \in Procs : V1Load(p)
RespondV1 == \E p \in Procs, resp \in TextResponses : V1Respond(p, resp)
SaveV1 == \E p \in Procs : V1Save(p)
RespondOnceV1 == \E p \in Procs, resp \in TextResponses : V1RespondOnce(p, resp)
Throws == \E p \in Procs : InvokeThrows(p)
Finish == \E p \in Procs : FinishTurn(p)

StartV2 == \E p \in Procs, userId \in Users, memory \in BOOLEAN :
             StartTurn(p, "V2", userId, TurnPrompt(started + 1), memory)
LoadV2 == \E p \in Procs : V2Load(p)
RespondV2 == \E p \in Procs : \E resp \in TokenResponses(turn[p].ordinal) :
               turn[p].method = "text" /\ V2Respond(p, resp)
SaveV2 == \E p \in Procs : V2Save(p)

Next ==
  \/ StartV1 \/ LoadV1 \/ RespondV1 \/ SaveV1 \/ RespondOnceV1
  \/ Throws \/ Finish \/ CatchErrors \/ Tick

NextV2 ==
  \/ StartV2 \/ LoadV2 \/ RespondV2 \/ SaveV2
  \/ Throws \/ Finish \/ CatchErrors \/ Tick

\* The full-transcript strategy.
Spec == InitSession /\ [][Next]_vars

\* The continuation-token strategy.
SpecV2 == InitSession /\ [][NextV2]_vars

\* One application thread making one call after another for one user on a V1
\* and a V2 responder that share a provider which can reject get and set
\* (Redis):
\* text turns with and without the options argument, structured turns,
\* failing invocations and failing cache calls.

StartText == \E kind \in Kinds, memory \in BOOLEAN :
               StartFollowed(Caller, kind, CallerUser, TurnPrompt(started + 1), memory)
StartBare == \E kind \in Kinds :
               StartOmitted(Caller, kind, CallerUser, TurnPrompt(started + 1))
StartStructured == \E kind \in Kinds :
                     StartObject(Caller, kind, CallerUser, TurnPrompt(started + 1))
LoadFailsV1 == \E p \in Procs : V1LoadFails(p)
LoadFailsV2 == \E p \in Procs : V2LoadFails(p)
RespondObjectV1 == \E p \in Procs : \E resp \in ObjectResponses(turn[p].ordinal) :
                     V1RespondObject(p, resp)
RespondObjectV2 == \E p \in Procs : \E resp \in ObjectResponses(turn[p].ordinal) :
                     turn[p].method = "object" /\ V2Respond(p, resp)
SaveRejected == \E p \in Procs : SaveFails(p)

NextTurns ==
  \/ StartText \/ StartBare \/ StartStructured
  \/ LoadV1 \/ LoadFailsV1 \/ RespondV1 \/ RespondOnceV1 \/ RespondObjectV1 \/ SaveV1
  \/ LoadV2 \/ LoadFailsV2 \/ RespondV2 \/ RespondObjectV2 \/ SaveV2
  \/ SaveRejected \/ Throws \/ Finish \/ CatchErrors \/ Tick

SpecTurns == InitSession /\ [][NextTurns]_vars

\* ------------------------------------------------------ concurrent turns
\* Two callers make memory-enabled getContextResponse calls on a V1 and a
\* V2 responder that share the provider, for the same user or for two, and
\* every model call answers.
StartShared == \E p \in Procs, kind \in Kinds, userId \in Users :
                 StartTurn(p, kind, userId, TurnPrompt(started + 1), TRUE)

NextRace ==
  \/ StartShared
  \/ LoadV1 \/ RespondV1 \/ SaveV1
  \/ LoadV2 \/ RespondV2 \/ SaveV2
  \/ Finish

SpecRace == InitSession /\ [][NextRace]_vars

\* -------------------------------------------------------------- the process
\* One process holds one or two responders, each on a provider of its own or
\* both on the same one; the providers are InMemoryCache objects or ioredis
\* clients.  The caller of r1 makes memory-enabled V1 turns on p1, whose
\* store is cache, while handlers are registered, providers emit
\* connectivity events and termination signals arrive.

Constructed == DOMAIN providerOf

\* An ioredis client rejects every command issued after quit; InMemoryCache
\* quit (lines 99-101) does nothing, so the cache goes on accepting.  The
\* variant accepts in both cases.
AcceptsAlways(prov) == TRUE

Accepts(prov) ==
  \/ providerKind = "memory"
  \/ \A i \in 1..Len(calls[prov]) : calls[prov][i] # "quit"

\* on(event, callback): an ioredis client keeps the callback; InMemoryCache
\* (line 108) drops it.  The variant keeps it there too.
OnKeepsAlways(kind) == TRUE

OnKeeps(kind) == kind = "redis"

\* Awaits on InMemoryCache resolve as microtasks: once a signal's listeners
\* have started, nothing else runs until they are through.  Awaits on an
\* ioredis client resolve when the reply arrives.
Settled == ~exited /\ queue = <<>>

RECURSIVE Occurrences(_, _)
Occurrences(log, call) ==
  IF log = <<>> THEN 0
  ELSE (IF Head(log) = call THEN 1 ELSE 0) + Occurrences(Tail(log), call)

\* The responders of ResponderOrder that were constructed, in order.
RECURSIVE InOrder(_)
InOrder(order) ==
  IF order = <<>> THEN <<>>
  ELSE (IF Head(order) \in Constructed THEN <<Head(order)>> ELSE <<>>)
         \o InOrder(Tail(order))

RECURSIVE Repeat(_, _)
Repeat(call, n) == IF n = 0 THEN <<>> ELSE <<call>> \o Repeat(call, n - 1)

InitProcess ==
  /\ providerKind \in {"memory", "redis"}
  /\ providerOf \in {[r \in {"r1"} |-> "p1"],
                     [r \in Responders |-> "p1"],
                     [r \in Responders |-> IF r = "r1" THEN "p1" ELSE "p2"]}
  /\ handlers = {}
  /\ listening = [prov \in Providers |-> [r \in Responders |-> 0]]
  /\ heard = [r \in Responders |-> NothingHeard]
  /\ signals = 0
  /\ runs = [r \in Responders |-> <<>>]
  /\ queue = <<>>
  /\ calls = [prov \in Providers |-> <<>>]
  /\ exited = FALSE
  /\ emitted = NoEvent
  /\ cache = EmptyMap
  /\ now = 0
  /\ lengthOfContext = DefaultLengthOfContext
  /\ errorHandler = FALSE
  /\ pc = [p \in Procs |-> "idle"]
  /\ turn = [p \in Procs |-> NoTurn]
  /\ messages = [p \in Procs |-> <<>>]
  /\ messagesKey = [p \in Procs |-> <<>>]
  /\ request = [p \in Procs |-> NoRequest]
  /\ response = [p \in Procs |-> NoResponse]
  /\ outcome = [p \in Procs |-> "none"]
  /\ gets = [p \in Procs |-> 0]
  /\ sets = [p \in Procs |-> 0]
  /\ notified = [p \in Procs |-> 0]
  /\ loaded = [p \in Procs |-> <<>>]
  /\ overlap = [p \in Procs |-> FALSE]
  /\ memoryUsers = {}
  /\ started = 0
  /\ invoked = [p \in Procs |-> 0]
  /\ before = [p \in Procs |-> EmptyMap]
  /\ fetched = [p \in Procs |-> NoFetch]
  /\ probe = NoProbe
  /\ written = EmptyMap
  /\ trimIn = <<>>
  /\ trimMax = 1
  /\ trimOut = <<>>
  /\ trimAgain = <<>>
  /\ trimPc = "unused"

\* catchErrors(handler) on responder r, lines 242-268: keep the handler and
\* register four more callbacks with the provider, one per kind of event.
catchErrors(r) ==
  /\ Settled
  /\ r \in Constructed
  /\ handlers' = handlers \cup {r}
  /\ listening' = IF OnKeeps(providerKind)
                    THEN [listening EXCEPT ![providerOf[r]][r] = @ + 1]
                    ELSE listening
  /\ errorHandler' = (errorHandler \/ r = "r1")
  /\ UNCHANGED <<providerKind, providerOf, heard, signals, runs, queue, calls, exited,
                 emitted>>
  /\ UNCHANGED <<cache, now, lengthOfContext, pc, turn, messages, messagesKey, request,
                 response, outcome, gets, sets, notified, loaded, overlap, memoryUsers,
                 started, invoked, before, fetched>>
  /\ UNCHANGED <<trimVars, probeVars>>

\* The first call on a responder, and a later one that replaces the handler.
CatchErrorsOn(r) == r \notin handlers /\ catchErrors(r)

CatchErrorsAgain(r) ==
  /\ r \in handlers
  /\ listening[providerOf[r]][r] < MaxRegistrations
  /\ catchErrors(r)

\* A provider emits a connectivity event: each callback it holds for the
\* kind calls its responder's handler with that kind (lines 253-267).
Emit(prov, kind) ==
  /\ Settled
  /\ emitted.count < MaxEvents
  /\ emitted' = [count |-> emitted.count + 1, provider |-> prov, kind |-> kind]
  /\ heard' = [r \in Responders |->
                 IF listening[prov][r] > 0
                   THEN [heard[r] EXCEPT !.kind = kind, !.times = listening[prov][r]]
                   ELSE heard[r]]
  /\ UNCHANGED <<providerKind, providerOf, handlers, listening, signals, runs, queue,
                 calls, exited>>
  /\ UNCHANGED sessionVars
  /\ UNCHANGED <<trimVars, probeVars>>

\* The providers some constructed responder uses.
InUse == {providerOf[r] : r \in Constructed}

\* The sets of providers that may reject a command although the connection
\* was not closed: any remote ones; InMemoryCache flushall (lines 91-93) and
\* quit (lines 99-101) cannot fail.
Rejecting == IF providerKind = "redis" THEN SUBSET InUse ELSE {{}}

\* SIGINT or SIGTERM, lines 275-285: the cleanup listener of every responder
\* runs up to its first await, so each calls flushall on its provider; the
\* providers of down reject it and keep their entries.
SignalWith(down) ==
  /\ Settled
  /\ signals < MaxSignals
  /\ signals' = signals + 1
  /\ calls' = [prov \in Providers |->
                 calls[prov] \o
                   Repeat("flushall", Cardinality({r \in Constructed : providerOf[r] = prov}))]
  /\ runs' = [r \in Responders |->
                IF r \in Constructed
                  THEN Append(runs[r], IF Accepts(providerOf[r]) /\ providerOf[r] \notin down
                                         THEN "flushing"
                                         ELSE "failed")
                  ELSE runs[r]]
  /\ queue' = IF providerKind = "memory"
                THEN [i \in 1..Len(InOrder(ResponderOrder)) |->
                        <<InOrder(ResponderOrder)[i], signals + 1>>]
                ELSE <<>>
  /\ cache' = IF Accepts("p1") /\ "p1" \notin down THEN EmptyMap ELSE cache
  /\ UNCHANGED <<providerKind, providerOf, handlers, listening, heard, exited, emitted>>
  /\ UNCHANGED <<now, lengthOfContext, errorHandler, pc, turn, messages, messagesKey,
                 request, response, outcome, gets, sets, notified, loaded, overlap,
                 memoryUsers, started, invoked, before, fetched>>
  /\ UNCHANGED <<trimVars, probeVars>>

\* A signal on which every provider takes the flushall it is sent, and one
\* on which some provider rejects it.
Signal == SignalWith({})
SignalRejected == \E down \in Rejecting \ {{}} : SignalWith(down)

\* The cleanup of responder r started by the n-th signal may take its next
\* step: it is at that stage, the process is alive and, with microtasks, it
\* is the one at the head of the queue.
MayStep(r, n, stage) ==
  /\ ~exited
  /\ r \in Constructed
  /\ n \in 1..Len(runs[r])
  /\ runs[r][n] = stage
  /\ providerKind = "memory" => (queue # <<>> /\ Head(queue) = <<r, n>>)

\* await flushall() resolved, line 278: call quit on the provider.
FlushDone(r, n) ==
  /\ MayStep(r, n, "flushing")
  /\ calls' = [calls EXCEPT ![providerOf[r]] = Append(@, "quit")]
  /\ runs' = [runs EXCEPT ![r][n] = IF Accepts(providerOf[r]) THEN "quitting" ELSE "failed"]
  /\ queue' = IF providerKind = "memory" THEN Append(Tail(queue), <<r, n>>) ELSE queue
  /\ UNCHANGED <<providerKind, providerOf, handlers, listening, heard, signals, exited,
                 emitted>>
  /\ UNCHANGED sessionVars
  /\ UNCHANGED <<trimVars, probeVars>>

\* await quit() resolved, lines 279-281: tell the handler 'clean' and call
\* process.exit(0).
QuitDone(r, n) ==
  /\ MayStep(r, n, "quitting")
  /\ heard' = [heard EXCEPT ![r].clean = IF r \in handlers THEN @ + 1 ELSE @]
  /\ exited' = TRUE
  /\ runs' = [runs EXCEPT ![r][n] = "done"]
  /\ queue' = <<>>
  /\ UNCHANGED <<providerKind, providerOf, handlers, listening, signals, calls, emitted>>
  /\ UNCHANGED sessionVars
  /\ UNCHANGED <<trimVars, probeVars>>

\* await quit() rejected by a remote provider, line 278: the cleanup ends
\* there, before lines 279-283.
QuitFails(r, n) ==
  /\ MayStep(r, n, "quitting")
  /\ {providerOf[r]} \in Rejecting
  /\ runs' = [runs EXCEPT ![r][n] = "failed"]
  /\ UNCHANGED <<providerKind, providerOf, handlers, listening, heard, signals, queue,
                 calls, exited, emitted>>
  /\ UNCHANGED sessionVars
  /\ UNCHANGED <<trimVars, probeVars>>

\* A cleanup whose flushall or quit was rejected ends in an unhandled
\* rejection, on which the runtime may end the process.
CleanupCrash(r, n) ==
  /\ MayStep(r, n, "failed")
  /\ exited' = TRUE
  /\ queue' = <<>>
  /\ UNCHANGED <<providerKind, providerOf, handlers, listening, heard, signals, runs,
                 calls, emitted>>
  /\ UNCHANGED sessionVars
  /\ UNCHANGED <<trimVars, probeVars>>

Register == \E r \in Responders : CatchErrorsOn(r)
RegisterAgain == \E r \in Responders : CatchErrorsAgain(r)
Emits == \E prov \in Providers, kind \in EventKinds : Emit(prov, kind)
FlushReturns == \E r \in Responders, n \in 1..MaxSignals : FlushDone(r, n)
QuitReturns == \E r \in Responders, n \in 1..MaxSignals : QuitDone(r, n)
QuitRejected == \E r \in Responders, n \in 1..MaxSignals : QuitFails(r, n)
Crashes == \E r \in Responders, n \in 1..MaxSignals : CleanupCrash(r, n)

\* The turns of r1's caller, which run only while the process is alive and
\* no microtask is pending; get and set succeed on a provider that accepts
\* commands and reject on one that does not.  The model answers each prompt
\* with one assistant message.
PlainReply == [messages |-> <<Msg("assistant", "hi")>>, text |-> "hi", responseId |-> <<>>,
               object |-> ""]

TurnStart == Settled /\ StartTurn(Caller, "V1", CallerUser, TurnPrompt(started + 1), TRUE)
TurnLoad == Settled /\ Accepts("p1") /\ V1Load(Caller)
TurnLoadFails == Settled /\ ~Accepts("p1") /\ V1LoadFails(Caller)
TurnRespond == Settled /\ V1Respond(Caller, PlainReply)
TurnSave == Settled /\ Accepts("p1") /\ V1Save(Caller)
TurnSaveFails == Settled /\ ~Accepts("p1") /\ SaveFails(Caller)
TurnFinish == Settled /\ FinishTurn(Caller)

NextProcess ==
  \/ Register \/ Emits \/ Signal \/ FlushReturns \/ QuitReturns \/ Crashes
  \/ TurnStart \/ TurnLoad \/ TurnLoadFails \/ TurnRespond \/ TurnSave \/ TurnSaveFails
  \/ TurnFinish

SpecProcess == InitProcess /\ [][NextProcess]_vars

\* ------------------------------------------------------- the stored value
\* One caller's V1 turns, text and structured, on a session key under which
\* the provider already holds whatever some writer has put there.
StoredTexts ==
  { JSONstringify(<<>>),
    JSONstringify(<<Msg("user", "A"), Msg("assistant", "hi")>>),
    <<"resp_", "x">>, <<"[", "{">>,
    <<"null">>, <<"0">>, <<"{", "}">>, <<"{", "user", "A", "}">>, <<"\"", "A", "\"">> }

StoredMaps ==
  {EmptyMap} \cup
  { CacheSetMap(EmptyMap, SessionKey(CallerUser), text, ExpireTime, 0) : text \in StoredTexts }

InitStored ==
  /\ ProcessIdle
  /\ cache \in StoredMaps
  /\ now = 0
  /\ lengthOfContext \in {ConfiguredLength(c) : c \in 0..MaxK}
  /\ errorHandler \in BOOLEAN
  /\ pc = [p \in Procs |-> "idle"]
  /\ turn = [p \in Procs |-> NoTurn]
  /\ messages = [p \in Procs |-> <<>>]
  /\ messagesKey = [p \in Procs |-> <<>>]
  /\ request = [p \in Procs |-> NoRequest]
  /\ response = [p \in Procs |-> NoResponse]
  /\ outcome = [p \in Procs |-> "none"]
  /\ gets = [p \in Procs |-> 0]
  /\ sets = [p \in Procs |-> 0]
  /\ notified = [p \in Procs |-> 0]
  /\ loaded = [p \in Procs |-> <<>>]
  /\ overlap = [p \in Procs |-> FALSE]
  /\ memoryUsers = {}
  /\ started = 0
  /\ invoked = [p \in Procs |-> 0]
  /\ before = [p \in Procs |-> EmptyMap]
  /\ fetched = [p \in Procs |-> NoFetch]
  /\ probe = NoProbe
  /\ written = EmptyMap
  /\ trimIn = <<>>
  /\ trimMax = 1
  /\ trimOut = <<>>
  /\ trimAgain = <<>>
  /\ trimPc = "unused"

StartStoredText == StartFollowed(Caller, "V1", CallerUser, TurnPrompt(started + 1), TRUE)
StartStoredObject == StartObject(Caller, "V1", CallerUser, TurnPrompt(started + 1))
PushThrowsV1 == \E p \in Procs : V1PushThrows(p)

NextStored ==
  \/ StartStoredText \/ StartStoredObject
  \/ LoadV1 \/ PushThrowsV1
  \/ RespondV1 \/ RespondObjectV1 \/ SaveV1 \/ Finish

SpecStored == InitStored /\ [][NextStored]_vars

\* The responders with their handlers and the providers' events alone;
\* catchErrors may be called again on a responder that has a handler.
NextHandlers == Register \/ RegisterAgain \/ Emits

SpecHandlers == InitProcess /\ [][NextHandlers]_vars

\* The process with providers that may reject flushall or quit.  Every reply
\* of a provider arrives, so a cleanup that awaits flushall or quit goes on.
\* What the runtime does with a cleanup that ended in a rejection is not the
\* code's to decide, so Crashes may never happen.
NextShutdown == NextProcess \/ SignalRejected \/ QuitRejected

SpecShutdown ==
  InitProcess /\ [][NextShutdown]_vars /\ WF_vars(FlushReturns) /\ WF_vars(QuitReturns)

\* ------------------------------------------------- InMemoryCache on its own
\* Callers sharing one InMemoryCache call get, set and flushall directly on
\* one user's session key, while the clock moves in half seconds.
CacheKeys == {SessionKey(CallerUser)}
CacheValues == {<<"v1">>, <<"v2">>}
Durations == 1..ExpireTime
HalfSecond == MsPerSecond \div 2
LastInstant == (MaxTime + ExpireTime) * MsPerSecond

Known(key) == IF key \in DOMAIN written THEN written[key] ELSE NoWrite

InitCache ==
  /\ SessionIdle
  /\ trimIn = <<>>
  /\ trimMax = 1
  /\ trimOut = <<>>
  /\ trimAgain = <<>>
  /\ trimPc = "unused"

\* InMemoryCache.set(key, value, "EX", duration)
ProbeSet(key, value, duration) ==
  /\ cache' = CacheSetMap(cache, key, value, duration, now)
  /\ written' = [k \in DOMAIN written \cup {key} |->
                   IF k = key
                     THEN [count |-> Min(Known(key).count + 1, 2), value |-> value,
                           at |-> now, duration |-> duration,
                           prevAt |-> IF Known(key).count = 0 THEN now ELSE Known(key).at,
                           flushed |-> FALSE]
                     ELSE written[k]]
  /\ UNCHANGED <<now, probe>>
  /\ UNCHANGED <<lengthOfContext, errorHandler, pc, turn, messages, messagesKey, request,
                 response, outcome, gets, sets, notified, loaded, overlap, memoryUsers,
                 started, invoked, before, fetched>>
  /\ UNCHANGED <<trimVars, processVars>>

\* InMemoryCache.get(key)
ProbeGet(key) ==
  /\ probe' = [key |-> key,
               isNull |-> CacheGetResult(cache, key, now).isNull,
               value |-> CacheGetResult(cache, key, now).value,
               at |-> now,
               last |-> Known(key)]
  /\ cache' = CacheGetMap(cache, key, now)
  /\ UNCHANGED <<now, written>>
  /\ UNCHANGED <<lengthOfContext, errorHandler, pc, turn, messages, messagesKey, request,
                 response, outcome, gets, sets, notified, loaded, overlap, memoryUsers,
                 started, invoked, before, fetched>>
  /\ UNCHANGED <<trimVars, processVars>>

\* InMemoryCache.flushall()
ProbeFlush ==
  /\ cache # EmptyMap
  /\ cache' = EmptyMap
  /\ written' = [key \in DOMAIN written |->
                   [written[key] EXCEPT !.count = 0, !.flushed = TRUE]]
  /\ UNCHANGED <<now, probe>>
  /\ UNCHANGED <<lengthOfContext, errorHandler, pc, turn, messages, messagesKey, request,
                 response, outcome, gets, sets, notified, loaded, overlap, memoryUsers,
                 started, invoked, before, fetched>>
  /\ UNCHANGED <<trimVars, processVars>>

\* Date.now() advances by half a second.
HalfTick ==
  /\ now < LastInstant
  /\ now' = now + HalfSecond
  /\ UNCHANGED <<cache, probe, written>>
  /\ UNCHANGED <<lengthOfContext, errorHandler, pc, turn, messages, messagesKey, request,
                 response, outcome, gets, sets, notified, loaded, overlap, memoryUsers,
                 started, invoked, before, fetched>>
  /\ UNCHANGED <<trimVars, processVars>>

SetAny == \E key \in CacheKeys, value \in CacheValues, duration \in Durations :
            ProbeSet(key, value, duration)
GetAny == \E key \in CacheKeys : ProbeGet(key)

NextCache == SetAny \/ GetAny \/ ProbeFlush \/ HalfTick

SpecCache == InitCache /\ [][NextCache]_vars

RECURSIVE SeqsUpTo(_, _)
SeqsUpTo(S, n) ==
  IF n = 0 THEN {<<>>}
  ELSE LET shorter == SeqsUpTo(S, n - 1)
       IN shorter \cup {Append(s, x) : s \in {t \in shorter : Len(t) = n - 1}, x \in S}

TrimMessages == {Msg(r, c) : r \in Roles, c \in TrimContents}

\* The two transcripts of the specification's scenarios.
ScenarioPair == <<Msg("user", "A"), Msg("assistant", "B"), Msg("tool", "C"), Msg("assistant", "D")>>
ScenarioPlain == <<Msg("user", "A"), Msg("assistant", "B"), Msg("user", "C")>>

TrimInputs == SeqsUpTo(TrimMessages, MaxLen) \cup {ScenarioPair, ScenarioPlain}

InitTrim ==
  /\ SessionIdle
  /\ trimIn \in TrimInputs
  /\ trimMax \in 1..MaxK
  /\ trimOut = <<>>
  /\ trimAgain = <<>>
  /\ trimPc = "input"

TrimOnce ==
  /\ trimPc = "input"
  /\ trimOut' = trimMessagesToolsPairsSafety(trimIn, trimMax)
  /\ trimPc' = "trimmed"
  /\ UNCHANGED <<trimIn, trimMax, trimAgain>>
  /\ UNCHANGED <<sessionVars, probeVars, processVars>>

TrimTwice ==
  /\ trimPc = "trimmed"
  /\ trimAgain' = trimMessagesToolsPairsSafety(trimOut, trimMax)
  /\ trimPc' = "retrimmed"
  /\ UNCHANGED <<trimIn, trimMax, trimOut>>
  /\ UNCHANGED <<sessionVars, probeVars, processVars>>

NextTrim == TrimOnce \/ TrimTwice

SpecTrim == InitTrim /\ [][NextTrim]_vars

\* ------------------------------------------------- properties of the trimmer
Trimmed == trimPc \in {"trimmed", "retrimmed"}

\* Index i of trimIn (0-based) is among the messages the trimmer kept.
Retained(i) == i >= Len(trimIn) - Len(trimOut)

IsPair(list, i) ==
  /\ i >= 1 /\ i < Len(list)
  /\ At(list, i).role = "tool"
  /\ At(list, i - 1).role = "assistant"

HasPair(list) == \E i \in 1..(Len(list) - 1) : IsPair(list, i)

IsSuffix(short, long) ==
  /\ Len(short) <= Len(long)
  /\ short = SubSeq(long, Len(long) - Len(short) + 1, Len(long))

\* C1: pair preservation - for every adjacent (assistant, tool) pair at
\* indices (i-1, i) of the input, the trimmer keeps index i-1 if and only if
\* it keeps index i.
C1_PairPreservation ==
  Trimmed =>
    \A i \in 1..(Len(trimIn) - 1) :
      IsPair(trimIn, i) => (Retained(i - 1) <=> Retained(i))

\* C2: idempotence - trimming the trimmer's output again with the same
\* budget returns that output unchanged.
C2_Idempotent == trimPc = "retrimmed" => trimAgain = trimOut

\* C4: no-op below budget - when the input has at most maxLength messages
\* the output is the input, same messages in the same order; the empty list
\* comes back empty.
C4_NoOpBelowBudget ==
  (Trimmed /\ Len(trimIn) <= trimMax) => trimOut = trimIn

C4_Witness ==
  /\ trimPc = "trimmed"
  /\ Len(trimIn) = trimMax
  /\ trimMax = 2
  /\ trimOut = trimIn

\* C5: the output is a contiguous suffix of the input (content and order
\* kept, nothing inserted), and a non-empty input keeps its last message.
C5_Suffix ==
  Trimmed =>
    /\ IsSuffix(trimOut, trimIn)
    /\ trimIn # <<>> => (trimOut # <<>> /\ trimOut[Len(trimOut)] = trimIn[Len(trimIn)])

C5_Witness ==
  /\ trimPc = "trimmed"
  /\ Len(trimIn) > trimMax
  /\ Len(trimOut) < Len(trimIn)
  /\ trimOut # <<>>

\* C6: when the input is over budget and the naive cut c = len - maxLength
\* falls between an assistant message at c-1 and its tool message at c, the
\* output is the input from index c-1 on, maxLength + 1 messages.
C6_CutInsidePair ==
  LET c == Len(trimIn) - trimMax IN
  (Trimmed /\ Len(trimIn) > trimMax /\ IsPair(trimIn, c)) =>
    /\ trimOut = SubSeq(trimIn, c, Len(trimIn))
    /\ Len(trimOut) = trimMax + 1
    /\ trimOut[1].role = "assistant"

C6_Witness ==
  /\ trimPc = "trimmed"
  /\ trimIn = ScenarioPair
  /\ trimMax = 2
  /\ trimOut = <<Msg("assistant", "B"), Msg("tool", "C"), Msg("assistant", "D")>>

\* C7: when the input is over budget and holds no assistant-tool adjacency,
\* the output is exactly the last maxLength messages.
C7_PlainCut ==
  (Trimmed /\ Len(trimIn) > trimMax /\ ~HasPair(trimIn)) =>
    trimOut = SubSeq(trimIn, Len(trimIn) - trimMax + 1, Len(trimIn))

C7_Witness ==
  /\ trimPc = "trimmed"
  /\ trimIn = ScenarioPlain
  /\ trimMax = 2
  /\ trimOut = <<Msg("assistant", "B"), Msg("user", "C")>>

\* ------------------------------------------------ properties of the session
\* Every tool message of the list directly follows an assistant message.
WellPaired(list) ==
  \A i \in 1..Len(list) :
    list[i].role = "tool" => (i > 1 /\ list[i - 1].role = "assistant")

\* C3: under the full-transcript strategy, with every invocation reporting
\* a well-paired message list, no stored transcript holds a tool message
\* without an assistant message directly before it.
C3_StoredWellPaired ==
  \A key \in DOMAIN cache :
    JSONparse(cache[key].value).ok => WellPaired(JSONparse(cache[key].value).value)

\* C8: after a successful memory-enabled V1 turn that no other turn of the
\* same user overlapped, the session entry holds the serialization of
\* trim(prior ++ [user prompt] ++ reported messages, budget).
C8_StoredAfterTurn ==
  \A p \in Procs :
    (/\ pc[p] = "done" /\ outcome[p] = "response"
     /\ turn[p].kind = "V1" /\ turn[p].memory /\ ~overlap[p]) =>
      /\ SessionKey(turn[p].userId) \in DOMAIN cache
      /\ cache[SessionKey(turn[p].userId)].value =
           JSONstringify(trimMessagesToolsPairsSafety(
             loaded[p] \o <<Msg("user", turn[p].prompt)>> \o response[p].messages,
             lengthOfContext))

C8_Witness ==
  \E p \in Procs :
    /\ pc[p] = "done" /\ outcome[p] = "response"
    /\ turn[p].kind = "V1" /\ turn[p].memory /\ ~overlap[p]
    /\ loaded[p] # <<>>
    /\ Len(response[p].messages) = 3
    /\ Len(loaded[p]) + 4 > lengthOfContext

\* A step of caller p inside a turn that asked for memory = false.
NoMemoryStep(p) ==
  /\ pc'[p] # pc[p]
  /\ IF pc[p] = "idle" THEN ~turn'[p].memory ELSE ~turn[p].memory

\* C9: a V1 turn with memory = false makes no cache get and no cache set;
\* a user that only ever had such turns has no session entry, and no step
\* of such a turn changes any entry.
C9_NoMemoryFrame ==
  /\ [](\A p \in Procs :
          (pc[p] # "idle" /\ turn[p].kind = "V1" /\ ~turn[p].memory) =>
            (gets[p] = 0 /\ sets[p] = 0))
  /\ [](\A userId \in Users \ memoryUsers : SessionKey(userId) \notin DOMAIN cache)
  /\ [][(\E p \in Procs : NoMemoryStep(p)) => cache' = cache]_vars

C9_Witness ==
  \E p \in Procs :
    /\ pc[p] = "done" /\ outcome[p] = "response"
    /\ turn[p].kind = "V1" /\ ~turn[p].memory
    /\ turn[p].ordinal = 2
    /\ turn[p].userId \notin memoryUsers
    /\ DOMAIN cache # {}

\* C10: a V2 turn that asks for memory = false makes no cache get and no
\* cache set, calls the model with the prompt alone and no continuation
\* token, and leaves the stored token of its user as it was.
C10_V2NoMemoryFrame ==
  /\ [](\A p \in Procs :
          (pc[p] # "idle" /\ turn[p].kind = "V2" /\ ~turn[p].memory) =>
            /\ gets[p] = 0 /\ sets[p] = 0
            /\ request[p].previousResponseId = <<>>)
  /\ [][(\E p \in Procs : NoMemoryStep(p)) => cache' = cache]_vars


\* C11: a getContextResponse(userId, prompt) call made without the options
\* argument runs a memory-enabled turn in V1 and in V2 alike: by the time it
\* ends it has read the session entry once and called the model once, and
\* what the caller gets is the turn's result, not a TypeError.
C11_OmittedOptions ==
  \A p \in Procs :
    (pc[p] = "done" /\ turn[p].omitted) =>
      /\ gets[p] = 1
      /\ invoked[p] = 1
      /\ outcome[p] # "typeerror"

\* The load step of caller p came back with nothing usable: provider.get
\* rejected, returned null, or (V1) returned a string JSON.parse rejects.
EmptyLoad(p) ==
  \/ fetched[p].status \in {"threw", "null"}
  \/ /\ turn[p].kind = "V1"
     /\ fetched[p].status = "value"
     /\ ~JSONparse(fetched[p].value).ok

\* C12: when provider.get throws, returns null, or returns a value that
\* cannot be deserialized, the turn goes on as a first turn: V1 sends the
\* model only the new user message, V2 sends the prompt without a
\* previousResponseId, the model is called, and the turn does not end with
\* the load step's exception.
C12_LoadFallsBack ==
  \A p \in Procs :
    (pc[p] \in {"invoke", "save", "done"} /\ EmptyLoad(p)) =>
      /\ invoked[p] = 1
      /\ turn[p].kind = "V1" =>
           /\ loaded[p] = <<>>
           /\ request[p].messages = <<Msg("user", turn[p].prompt)>>
      /\ turn[p].kind = "V2" =>
           /\ request[p].prompt = turn[p].prompt
           /\ request[p].previousResponseId = <<>>
      /\ outcome[p] = "cacheerror" => sets[p] = 1

C12_Witness ==
  \E p \in Procs :
    /\ pc[p] = "done"
    /\ outcome[p] = "response"
    /\ fetched[p].status = "threw"
    /\ turn[p].kind = "V1"
    /\ cache # EmptyMap

\* C13: a turn whose provider.set was attempted after the model answered
\* still returns the model's response to the caller.
C13_SaveFailureHidden ==
  \A p \in Procs :
    (pc[p] = "done" /\ sets[p] >= 1 /\ response[p] # NoResponse) =>
      outcome[p] = "response"


MemoryEnabled(t) == t.method = "object" \/ t.memory

\* C15: a memory-enabled turn whose model invocation threw has performed no
\* provider.set, and the session entry a reader sees is the one a reader saw
\* before the turn, value and expiry alike.
C15_FailedTurnWritesNothing ==
  \A p \in Procs :
    (pc[p] = "done" /\ outcome[p] = "error" /\ MemoryEnabled(turn[p])) =>
      LET sessionKey == SessionKey(turn[p].userId)
      IN /\ sets[p] = 0
         /\ sessionKey \in DOMAIN cache =>
              /\ sessionKey \in DOMAIN before[p]
              /\ cache[sessionKey] = before[p][sessionKey]
         /\ (sessionKey \in DOMAIN before[p] /\ before[p][sessionKey].expiresAt > now) =>
              sessionKey \in DOMAIN cache

C15_Witness ==
  \E p \in Procs :
    /\ pc[p] = "done"
    /\ outcome[p] = "error"
    /\ MemoryEnabled(turn[p])
    /\ SessionKey(turn[p].userId) \in DOMAIN cache
    /\ cache[SessionKey(turn[p].userId)].expiresAt > now

C17_ContinuationRequest ==
  [][\A p \in Procs :
       (/\ pc[p] = "load"
        /\ pc'[p] = "invoke"
        /\ turn[p].kind = "V2"
        /\ fetched'[p].status # "threw") =>
         LET sessionKey == SessionKey(turn[p].userId)
             live == sessionKey \in DOMAIN cache /\ cache[sessionKey].expiresAt > now
         IN /\ request'[p].previousResponseId =
                 IF live THEN cache[sessionKey].value ELSE <<>>
            /\ request'[p].prompt = turn[p].prompt
            /\ request'[p].messages = <<>>]_vars

C17_Witness ==
  \E p \in Procs :
    /\ pc[p] = "invoke"
    /\ turn[p].kind = "V2"
    /\ turn[p].method = "object"
    /\ request[p].previousResponseId = ResponseId(1)

ProbeDeadline == probe.last.at + probe.last.duration * MsPerSecond

\* C18: a get on a key that has been set at least twice returns the second
\* set's value at every time strictly before that set's time plus its
\* duration in seconds, and null at every time from then on, whenever the
\* first set was made.
C18_SlidingExpiry ==
  (probe.key # <<>> /\ probe.last.count = 2) =>
    /\ probe.at < ProbeDeadline => (~probe.isNull /\ probe.value = probe.last.value)
    /\ probe.at >= ProbeDeadline => probe.isNull

\* The first set's own window had run out, the second set's had not, and
\* the get returned the second value.
C18_Witness ==
  /\ probe.key # <<>>
  /\ probe.last.count = 2
  /\ probe.last.prevAt < probe.last.at
  /\ probe.at >= probe.last.prevAt + probe.last.duration * MsPerSecond
  /\ probe.at < ProbeDeadline
  /\ ~probe.isNull
  /\ probe.value = <<"v2">>

\* C20: a get on a key that was never set, was cleared by flushall and not
\* set since, or whose latest set has run out returns null; any other get
\* returns the value of the latest set on the key.
C20_GetSetContract ==
  probe.key # <<>> =>
    LET live == /\ probe.last.count > 0
                /\ ~probe.last.flushed
                /\ probe.at < ProbeDeadline
    IN /\ ~live => probe.isNull
       /\ live => (~probe.isNull /\ probe.value = probe.last.value)

\* A get that found a cleared key empty although its set had not run out.
C20_Witness ==
  /\ probe.key # <<>>
  /\ probe.last.flushed
  /\ probe.at < ProbeDeadline
  /\ probe.isNull
  /\ cache # EmptyMap


\* C26: after a V1 getStructuredObject turn that returned, the stored
\* transcript is the trimmed list of what the turn loaded, the user prompt
\* and one assistant message whose content is the returned object
\* serialized to text.
C26_StructuredStored ==
  \A p \in Procs :
    (/\ pc[p] = "done" /\ outcome[p] = "response"
     /\ turn[p].kind = "V1" /\ turn[p].method = "object") =>
      /\ SessionKey(turn[p].userId) \in DOMAIN cache
      /\ cache[SessionKey(turn[p].userId)].value =
           JSONstringify(trimMessagesToolsPairsSafety(
             loaded[p] \o <<Msg("user", turn[p].prompt),
                            Msg("assistant", "{\"name\":\"" \o response[p].object \o "\"}")>>,
             lengthOfContext))
      /\ cache[SessionKey(turn[p].userId)].expiresAt <= now + ExpireTime * MsPerSecond

C26_Witness ==
  \E p \in Procs :
    /\ pc[p] = "done" /\ outcome[p] = "response"
    /\ turn[p].kind = "V1" /\ turn[p].method = "object"
    /\ loaded[p] # <<>>
    /\ Len(loaded[p]) + 2 > lengthOfContext

\* The cut the rule prescribes for trimIn and trimMax (0-based): the start of
\* the (assistant, tool) pair the naive cut would split, else the naive cut.
RuleCut ==
  LET c == Len(trimIn) - trimMax
      starts == {q \in 0..(Len(trimIn) - 2) :
                   /\ At(trimIn, q).role = "assistant"
                   /\ At(trimIn, q + 1).role = "tool"
                   /\ q < c /\ c <= q + 1}
  IN IF starts = {} THEN c ELSE CHOOSE q \in starts : \A r \in starts : q <= r

\* C28: for an input longer than the budget the trimmer returns the input
\* from the rule's cut on: from the start of the pair the naive cut would
\* split, and from the naive cut in every other case.
C28_CutRule ==
  (Trimmed /\ Len(trimIn) > trimMax) =>
    trimOut = SubSeq(trimIn, RuleCut + 1, Len(trimIn))

\* C29: in a memory-enabled turn the get, the model call and the set each
\* happen at most once; the model is called only after the get, the set is
\* made only after the model has answered, and the caller has the response
\* only after the set (a V2 response without an id is returned with no set).
C29_StepOrder ==
  \A p \in Procs :
    (pc[p] # "idle" /\ MemoryEnabled(turn[p])) =>
      /\ gets[p] <= 1 /\ invoked[p] <= 1 /\ sets[p] <= 1
      /\ invoked[p] = 1 => gets[p] = 1
      /\ sets[p] = 1 => (invoked[p] = 1 /\ response[p] # NoResponse)
      /\ outcome[p] = "response" =>
           /\ response[p] # NoResponse
           /\ \/ sets[p] = 1
              \/ turn[p].kind = "V2" /\ response[p].responseId = <<>>

C29_Witness ==
  \E p \in Procs :
    /\ pc[p] = "done" /\ outcome[p] = "response"
    /\ MemoryEnabled(turn[p])
    /\ gets[p] = 1 /\ invoked[p] = 1 /\ sets[p] = 1
    /\ turn[p].ordinal = 2

\* C30: no step of a turn removes an entry that can still be read: an entry
\* that has not expired by the time of the step is there after it, not
\* expired.
C30_LiveEntryKept ==
  [][\A key \in DOMAIN cache :
       cache[key].expiresAt > now' =>
         (key \in DOMAIN cache' /\ cache'[key].expiresAt > now')]_vars

C30_Witness ==
  \E p \in Procs :
    /\ pc[p] = "invoke"
    /\ fetched[p].status = "value"
    /\ SessionKey(turn[p].userId) \in DOMAIN cache
    /\ cache[SessionKey(turn[p].userId)].value = fetched[p].value


\* What the turn of caller p stores, computed from what its own get
\* returned, its prompt and its response, and from nothing else.
StoredBy(p) ==
  IF turn[p].kind = "V2"
    THEN response[p].responseId
    ELSE LET text == IF fetched[p].status = "value" /\ fetched[p].value # <<>>
                       THEN fetched[p].value ELSE <<"[", "]">>
             prior == IF JSONparse(text).ok THEN JSONparse(text).value ELSE <<>>
         IN JSONstringify(trimMessagesToolsPairsSafety(
              prior \o <<Msg("user", turn[p].prompt)>> \o response[p].messages,
              lengthOfContext))

\* Caller q saves last in a race with caller p: p's turn for the same user
\* has returned after its save, and both turns read the same prior state.
SavesLast(q, p) ==
  /\ p # q
  /\ pc[q] = "save" /\ pc'[q] = "done"
  /\ pc[p] = "done" /\ sets[p] = 1
  /\ turn[p].userId = turn[q].userId
  /\ fetched[p] = fetched[q]

\* C21: when two memory-enabled turns of one user read the same prior state
\* and both save, both return their response and the entry left by the
\* later save is what that turn computed from the prior state alone: the
\* other turn's user message, or its response id, is not in it.
C21_LastWriteWins ==
  [][\A p, q \in Procs :
       SavesLast(q, p) =>
         LET sessionKey == <<"session:", turn[q].userId>>
         IN /\ outcome[p] = "response"
            /\ outcome'[q] = "response"
            /\ sessionKey \in DOMAIN cache'
            /\ cache'[sessionKey].value = StoredBy(q)
            /\ turn[q].kind = "V1" =>
                 \A i \in 1..Len(JSONparse(cache'[sessionKey].value).value) :
                   JSONparse(cache'[sessionKey].value).value[i] #
                     Msg("user", turn[p].prompt)]_vars

C21_Witness ==
  \E p, q \in Procs :
    /\ p # q
    /\ pc[p] = "done" /\ pc[q] = "done"
    /\ sets[p] = 1 /\ sets[q] = 1
    /\ turn[p].userId = turn[q].userId
    /\ turn[p].kind = "V1" /\ turn[q].kind = "V1"
    /\ fetched[p] = fetched[q]
    /\ cache[SessionKey(turn[q].userId)].value = StoredBy(q)
    /\ cache[SessionKey(turn[q].userId)].value # StoredBy(p)

\* The user whose turn caller p is in during a step, also when the step
\* is the one that starts the turn.
StepUser(p) == IF pc[p] = "idle" THEN turn'[p].userId ELSE turn[p].userId

\* C22: a step of a turn for user u changes no entry but the one under
\* "session:" and u, and what its get returns is that entry's value, or
\* nothing when that entry is absent or expired.
C22_SessionsIndependent ==
  [][\A p \in Procs :
       pc'[p] # pc[p] =>
         LET own == <<"session:", StepUser(p)>>
         IN /\ \A key \in (DOMAIN cache \cup DOMAIN cache') \ {own} :
                 /\ key \in DOMAIN cache
                 /\ key \in DOMAIN cache'
                 /\ cache'[key] = cache[key]
            /\ pc[p] = "load" =>
                 IF own \in DOMAIN cache /\ cache[own].expiresAt > now
                   THEN fetched'[p] = [status |-> "value", value |-> cache[own].value]
                   ELSE fetched'[p].status = "null"]_vars

\* Turns of the two users ran side by side and each left its entry.
C22_Witness ==
  \E p, q \in Procs :
    /\ turn[p].userId = "u1" /\ turn[q].userId = "u2"
    /\ pc[p] = "done" /\ pc[q] = "done"
    /\ sets[p] = 1 /\ sets[q] = 1
    /\ DOMAIN cache = {SessionKey("u1"), SessionKey("u2")}

\* The provider has been told to quit.
Closed(prov) == \E i \in 1..Len(calls[prov]) : calls[prov][i] = "quit"

\* C23: on a termination signal flushall and then quit are called on the
\* cache provider exactly once each, in that order, and then the process
\* exits, however many responders the process holds: the calls a provider
\* has received are always the beginning of (flushall, quit), and once the
\* process has exited they are exactly (flushall, quit).
C23_FlushAndCloseOnce ==
  \A prov \in InUse :
    /\ calls[prov] \in {<<>>, <<"flushall">>, <<"flushall", "quit">>}
    /\ exited => calls[prov] = <<"flushall", "quit">>

\* C24: the handler a responder registered is told 'clean' exactly once per
\* shutdown, after flushall and quit on its provider and before the process
\* exits: it is never told twice, it has been told only when both calls were
\* made, and when the process has exited it has been told.
C24_CleanOnce ==
  \A r \in handlers :
    /\ heard[r].clean <= 1
    /\ heard[r].clean = 1 =>
         /\ Occurrences(calls[providerOf[r]], "flushall") >= 1
         /\ Closed(providerOf[r])
    /\ exited => heard[r].clean = 1

\* C25: after catchErrors(handler) every connectivity event of a remote
\* provider reaches the handler of each responder on that provider with the
\* kind it was emitted with, and changes no turn's position, outcome or
\* error notifications; with the in-memory provider no handler ever hears a
\* connectivity event.
C25_EventsForwarded ==
  /\ [][emitted'.count = emitted.count + 1 =>
          /\ emitted'.kind \in EventKinds
          /\ \A r \in handlers :
               (providerKind = "redis" /\ providerOf[r] = emitted'.provider)
                 => heard'[r].kind = emitted'.kind
          /\ pc' = pc /\ outcome' = outcome /\ notified' = notified]_vars
  /\ [](providerKind = "memory" => \A r \in Responders : heard[r].kind = "none")

\* A remote provider's event reached the handler while a turn was waiting for
\* the model.
C25_Witness ==
  /\ providerKind = "redis"
  /\ emitted.count = 1 /\ emitted.provider = "p1" /\ emitted.kind = "reconnecting"
  /\ "r1" \in handlers /\ heard["r1"].kind = "reconnecting"
  /\ pc[Caller] = "invoke" /\ outcome[Caller] = "none"

Least(a, b) == IF a <= b THEN a ELSE b

\* C31: the trimmer overruns the budget by at most one message: for every
\* input and every maxLength >= 1 the output has at least
\* min(length of the input, maxLength) and at most maxLength + 1 messages,
\* and so has the output of trimming that output again.
C31_OverrunAtMostOne ==
  /\ Trimmed =>
       /\ Least(Len(trimIn), trimMax) <= Len(trimOut)
       /\ Len(trimOut) <= trimMax + 1
  /\ trimPc = "retrimmed" =>
       /\ Least(Len(trimOut), trimMax) <= Len(trimAgain)
       /\ Len(trimAgain) <= trimMax + 1

\* An input more than one over the budget came back one over the budget.
C31_Witness ==
  /\ trimPc = "trimmed"
  /\ Len(trimIn) > trimMax + 1
  /\ Len(trimOut) = trimMax + 1

\* C32: when the process has exited after a termination signal the cache
\* provider holds no session entry, whether or not a memory-enabled turn was
\* in flight when the signal came.
C32_EmptyAtExit == exited => cache = EmptyMap

\* C33: after a termination signal the process eventually exits, also when
\* a provider rejects flushall or quit during the cleanup.
C33_EventuallyExits == (signals > 0) ~> exited

\* C34: however often catchErrors was called on a responder, one
\* connectivity event of its provider invokes the registered handler exactly
\* once.
C34_OneNotification ==
  \A r \in Responders : heard[r].kind # "none" => heard[r].times = 1

\* C35: whatever is stored under the session key - nothing, a JSON array
\* of messages, text that is not JSON, or JSON that is not an array - a
\* memory-enabled V1 turn calls the model: no turn has ended without the
\* model having been called.
C35_ReachesModel ==
  \A p \in Procs :
    (turn[p].kind = "V1" /\ turn[p].memory /\ pc[p] = "done") => invoked[p] >= 1

\* A continuation token as the model provider issues it.
IsResponseId(value) == value # <<>> /\ value[1] = "resp_"

\* C36: with a V1 and a V2 responder on one provider serving the same user,
\* whatever a V2 turn passes to the model as previousResponseId is a token
\* the model provider issued, never a stored transcript, and whatever
\* history a V1 turn replays was parsed from a stored transcript.
C36_StrategiesApart ==
  \A p \in Procs :
    /\ (turn[p].kind = "V2" /\ pc[p] # "idle" /\ request[p].previousResponseId # <<>>)
         => IsResponseId(request[p].previousResponseId)
    /\ (turn[p].kind = "V1" /\ pc[p] # "idle" /\ loaded[p] # <<>>)
         => fetched[p].value = JSONstringify(loaded[p])

====
